---------------------------- MODULE Spec2Model ----------------------------
(***************************************************************************)
(* Model of the badminton session scheduler and rating engine              *)
(* (server/src/index.ts over the Prisma schema of the migration).          *)
(*                                                                         *)
(* The database tables are the state: User.rating, WaitingQueueEntry,      *)
(* Match and RatingHistory.  Two specifications are given:                 *)
(*   Spec      every request handler runs to completion as one step        *)
(*             (requests arrive one after another);                        *)
(*   SpecConc  handlers of up to two requests interleave at their awaited  *)
(*             storage calls, which is how the Node event loop runs them.  *)
(* Both are built from the same step operators.                            *)
(*                                                                         *)
(* Timestamps (createdAt, startedAt, endedAt) are not modelled: no branch  *)
(* of the modelled handlers reads them.  joinedAt is kept as the order of  *)
(* the entries in the queue sequence.  exp1 and exp2 (index.ts 179-180)    *)
(* are computed by finish and never used, so expectedScore has no effect   *)
(* on the state and is not modelled.                                       *)
(***************************************************************************)
EXTENDS Integers, Sequences, FiniteSets, TLC

\* ------------------------------------------------------------- bounds
NumUsers == 11       \* registered players, all queued in the initial state
Courts == 2          \* the capacity the session was started with
MaxJoiners == 2      \* users (1 .. MaxJoiners) who send join requests later on
MaxFinishes == 2     \* finish requests that reach the rating transaction
MaxRequests == 3     \* requests started (SpecConc)
SessionPlayers == 4  \* players queued in each session at first (SpecSessions)

\* ---------------------------------------------------- program constants
K == 32                  \* eloUpdate's default k
DefaultRating == 1200    \* User.rating DEFAULT

Users == 1 .. NumUsers
JoinUsers == 1 .. MaxJoiners
Procs == {1, 2}

\* The session ids requests carry.  Session 1 is always active, session 3
\* is a row with isActive false, and session 2 is a second active session
\* or names no row, as the initial state says.
SessionIds == {1, 2, 3}

SCHEDULED == "SCHEDULED"
ONGOING == "ONGOING"
FINISHED == "FINISHED"
InUseStatuses == {SCHEDULED, ONGOING}

VARIABLES
  sessions,       \* Session rows by id (no modelled handler writes them)
  rating,         \* User.rating, [Users -> Int]
  queue,          \* WaitingQueueEntry rows in joinedAt order
  matches,        \* Match rows; a match's id is its index
  ratingHistory,  \* RatingHistory rows in creation order
  nReq,           \* requests started (SpecConc)
  pc,             \* per request slot: the handler's position
  loc             \* per request slot: the handler's local variables

vars == <<sessions, rating, queue, matches, ratingHistory, nReq, pc, loc>>

\* ------------------------------------------------------------ helpers
Min(a, b) == IF a < b THEN a ELSE b
Max(a, b) == IF a > b THEN a ELSE b

RECURSIVE SumSeq(_)
SumSeq(s) == IF s = <<>> THEN 0 ELSE Head(s) + SumSeq(Tail(s))

SelectIdx(s, Test(_)) == {i \in DOMAIN s : Test(s[i])}

\* A stable ascending sort of a sequence of records by their field `key`:
\* Array.prototype.sort is stable, and so is ORDER BY a, b when b is the
\* order the sequence is already in.
StableSort(s) ==
  LET n == Len(s)
      Rank(i) == Cardinality({j \in 1 .. n :
                     \/ s[j].key < s[i].key
                     \/ s[j].key = s[i].key /\ j < i}) + 1
  IN [k \in 1 .. n |-> s[CHOOSE i \in 1 .. n : Rank(i) = k]]

\* ----------------------------------------------------------- sessions
\* prisma.session.findUnique: the row, or "none".
NoSession == [exists |-> FALSE, courts |-> 0, isActive |-> FALSE]
ActiveSession == [exists |-> TRUE, courts |-> Courts, isActive |-> TRUE]
ClosedSession == [exists |-> TRUE, courts |-> Courts, isActive |-> FALSE]
session(sid) == sessions[sid]

\* -------------------------------------------------------------- rating
averageTeamRating(a, b) == (a + b) \div 2
eloUpdate(current, expected, score) == current + K * (score - expected)

\* finish, index.ts 174-184: the two teams' deltas from the ratings read
\* with the match, snap = <<p1.rating, p2.rating, p3.rating, p4.rating>>.
\* eloUpdate is called with the other team's average as `expected`.
TeamDeltas(snap, winnerTeam) ==
  LET team1Avg == averageTeamRating(snap[1], snap[2])
      team2Avg == averageTeamRating(snap[3], snap[4])
      score1 == IF winnerTeam = 1 THEN 1 ELSE 0
      score2 == IF winnerTeam = 2 THEN 1 ELSE 0
      newTeam1 == eloUpdate(team1Avg, team2Avg, score1)
      newTeam2 == eloUpdate(team2Avg, team1Avg, score2)
  IN [delta1 |-> newTeam1 - team1Avg, delta2 |-> newTeam2 - team2Avg]

\* The change applied to the player in slot k (1..4): delta1/2 or delta2/2.
SlotChange(snap, winnerTeam, k) ==
  LET d == TeamDeltas(snap, winnerTeam)
  IN IF k <= 2 THEN d.delta1 \div 2 ELSE d.delta2 \div 2

\* prisma.$transaction of the four user.update calls, index.ts 186-191:
\* each writes snapshot + change; a later write to the same user wins.
RatingTransaction(rt, p, snap, winnerTeam) ==
  LET W(r, k) == [r EXCEPT ![p[k]] = snap[k] + SlotChange(snap, winnerTeam, k)]
  IN W(W(W(W(rt, 1), 2), 3), 4)

\* prisma.ratingHistory.createMany, index.ts 193-198.
HistoryRows(p, snap, winnerTeam, matchId) ==
  [k \in 1 .. 4 |->
     [userId |-> p[k],
      change |-> SlotChange(snap, winnerTeam, k),
      rating |-> snap[k] + SlotChange(snap, winnerTeam, k),
      matchId |-> matchId]]

\* --------------------------------------------------------------- queue
QueueOf(q, sid) == SelectSeq(q, LAMBDA e : e.sessionId = sid)
\* A variant of IsQueued without the unique index on (sessionId, userId).
IsQueuedUnindexed(q, sid, u) == FALSE
IsQueued(q, sid, u) == \E i \in DOMAIN q : q[i].sessionId = sid /\ q[i].userId = u

\* aggregate _max position, index.ts 127-128: (max ?? 0) + 1.
NextPosition(q, sid) ==
  LET ps == {q[i].position : i \in SelectIdx(q, LAMBDA e : e.sessionId = sid)}
  IN (IF ps = {} THEN 0 ELSE CHOOSE x \in ps : \A y \in ps : y <= x) + 1

\* A variant of Upsert that always creates.
UpsertAlwaysCreates(q, sid, u, position) ==
  Append(q, [sessionId |-> sid, userId |-> u, position |-> position])

\* upsert on (sessionId, userId), index.ts 129-133: update {} or create.
Upsert(q, sid, u, position) ==
  IF IsQueued(q, sid, u) THEN q
  ELSE Append(q, [sessionId |-> sid, userId |-> u, position |-> position])

\* findMany ... orderBy position asc, joinedAt asc, index.ts 52-56.
OrderedQueue(q, sid) ==
  LET es == QueueOf(q, sid)
  IN StableSort([i \in DOMAIN es |-> [key |-> es[i].position, userId |-> es[i].userId]])

\* A variant of SortedPlayers that leaves the players in queue order.
PlayersInQueueOrder(q, rt, sid) ==
  LET oq == OrderedQueue(q, sid)
  IN [i \in DOMAIN oq |-> oq[i].userId]

\* players = queue.map(q => q.user); players.sort by rating, index.ts 58-59.
SortedPlayers(q, rt, sid) ==
  LET oq == OrderedQueue(q, sid)
      byRating == StableSort([i \in DOMAIN oq |-> [key |-> rt[oq[i].userId], userId |-> oq[i].userId]])
  IN [i \in DOMAIN byRating |-> byRating[i].userId]

\* A variant of DeleteMany whose filter leaves out the sessionId.
DeleteManyAnySession(q, sid, us) == SelectSeq(q, LAMBDA e : e.userId \notin us)

\* deleteMany where sessionId, userId in group, index.ts 76.
DeleteMany(q, sid, us) == SelectSeq(q, LAMBDA e : ~(e.sessionId = sid /\ e.userId \in us))

\* ------------------------------------------------------------- matches
InUseIds(ms, sid) == {i \in DOMAIN ms : ms[i].sessionId = sid /\ ms[i].status \in InUseStatuses}
\* match.count, index.ts 48.
InUseCount(ms, sid) == Cardinality(InUseIds(ms, sid))
\* A variant of AvailableCourts that does not subtract the courts in use.
AvailableCourtsIgnoringUse(ms, sid) == Max(0, session(sid).courts)

\* availableCourts, index.ts 49.
AvailableCourts(ms, sid) == Max(0, session(sid).courts - InUseCount(ms, sid))
\* A variant of UsedCourts that leaves out the courts of ONGOING matches.
UsedCourtsScheduledOnly(ms, sid) ==
  {ms[i].court : i \in {j \in DOMAIN ms : ms[j].sessionId = sid /\ ms[j].status = SCHEDULED}}

\* usedCourts, index.ts 61.
UsedCourts(ms, sid) == {ms[i].court : i \in InUseIds(ms, sid)}
\* A variant of SkipUsed that omits the while loop over usedCourts.
SkipUsedOmitted(court, used) == court

\* while (usedCourts.has(court)) court++, index.ts 65 and 78.
SkipUsed(court, used) == CHOOSE c \in court .. court + Cardinality(used) :
                            c \notin used /\ \A d \in court .. c - 1 : d \in used


\* ---------------------------------------------- generateUpcomingMatches
\* The locals of one call of generateUpcomingMatches, index.ts 44-81.
NoGen == [sessionId |-> 0, availableCourts |-> 0, players |-> <<>>,
          usedCourts |-> {}, created |-> <<>>, court |-> 0, i |-> 0]

\* A variant of LoopCond that asks for a player beyond the group of 4.
LoopCondOffByOne(g) == g.i + 4 < Len(g.players) /\ Len(g.created) < g.availableCourts

\* for-loop condition, index.ts 67.
LoopCond(g) == g.i + 3 < Len(g.players) /\ Len(g.created) < g.availableCourts

\* A variant of MaybeSwap that exchanges the 4th player with the player
\* two places on.
MaybeSwapTwoAhead(g, draw) ==
  IF draw /\ g.i + 5 < Len(g.players)
  THEN [g EXCEPT !.players = [@ EXCEPT ![g.i + 4] = g.players[g.i + 6],
                                       ![g.i + 6] = g.players[g.i + 4]]]
  ELSE g

\* index.ts 68-72; `draw` is Math.random() < 0.2.  players[i+3] is the
\* element at 1-based index i+4.
MaybeSwap(g, draw) ==
  IF draw /\ g.i + 4 < Len(g.players)
  THEN [g EXCEPT !.players = [@ EXCEPT ![g.i + 4] = g.players[g.i + 5],
                                       ![g.i + 5] = g.players[g.i + 4]]]
  ELSE g

\* players.slice(i, i + 4), index.ts 73.
Group(g) == SubSeq(g.players, g.i + 1, g.i + 4)
GroupIds(g) == {Group(g)[k] : k \in 1 .. 4}

\* match.create data, index.ts 74.
NewMatch(g) == [sessionId |-> g.sessionId, court |-> g.court, status |-> SCHEDULED,
                p |-> Group(g), winnerTeam |-> 0]

\* created.push(match), index.ts 75.
PushCreated(g, id) == [g EXCEPT !.created = Append(@, id)]

\* court++; while (usedCourts.has(court)) court++; i += 4, index.ts 67, 77-78.
Advance(g) == [g EXCEPT !.court = SkipUsed(@ + 1, g.usedCourts), !.i = @ + 4]

\* The locals when the loop is entered, all reads taken from one snapshot.
GenLocals(ms, q, rt, sid) ==
  [sessionId |-> sid,
   availableCourts |-> AvailableCourts(ms, sid),
   players |-> SortedPlayers(q, rt, sid),
   usedCourts |-> UsedCourts(ms, sid),
   created |-> <<>>,
   court |-> SkipUsed(1, UsedCourts(ms, sid)),
   i |-> 0]

\* The for loop run to its end; `draws` is the set of loop indices i at
\* which Math.random() < 0.2.
RECURSIVE GenLoop(_, _, _, _)
GenLoop(ms, q, g, draws) ==
  IF ~LoopCond(g) THEN [matches |-> ms, queue |-> q, created |-> g.created]
  ELSE LET g1 == MaybeSwap(g, g.i \in draws)
           ms1 == Append(ms, NewMatch(g1))
           g2 == PushCreated(g1, Len(ms1))
           q1 == DeleteMany(q, g2.sessionId, GroupIds(g2))
       IN GenLoop(ms1, q1, Advance(g2), draws)

\* generateUpcomingMatches run without interleaving (the session exists).
generateUpcomingMatches(ms, q, rt, sid, draws) ==
  IF AvailableCourts(ms, sid) <= 0
  THEN [matches |-> ms, queue |-> q, created |-> <<>>]
  ELSE GenLoop(ms, q, GenLocals(ms, q, rt, sid), draws)

\* The loop indices at which a draw can be made: the loop stops at the
\* first i with i + 3 >= players.length.
DrawSets(q, sid) == SUBSET {i \in 0 .. Len(QueueOf(q, sid)) : i % 4 = 0 /\ i + 3 < Len(QueueOf(q, sid))}

\* The locals of a request handler; NoLocals when the slot is idle.
NoLocals == [sessionId |-> 0, userId |-> 0, matchId |-> 0, winnerTeam |-> 0,
             position |-> 0, p |-> <<>>, snap |-> <<>>, g |-> NoGen]

\* -------------------------------------------------------- initial state
\* Seeded ratings (POST /api/dev/seed draws 1000 + floor(random * 400)); the
\* values are even so that every average and half delta is an integer and
\* the handlers' floating-point arithmetic is exact integer arithmetic.
SeedRating(u) == 1000 + 2 * ((u * 79) % 200)

RatingProfiles == {[u \in Users |-> DefaultRating], [u \in Users |-> SeedRating(u)]}

\* The database after the users signed up (or were seeded), the session
\* was started, and every user joined its queue, one request after
\* another in id order.
Init ==
  /\ sessions = [sid \in SessionIds |-> CASE sid = 1 -> ActiveSession
                                          [] sid = 2 -> NoSession
                                          [] OTHER -> ClosedSession]
  /\ rating \in RatingProfiles
  /\ queue = [u \in Users |-> [sessionId |-> 1, userId |-> u, position |-> u]]
  /\ matches = <<>>
  /\ ratingHistory = <<>>
  /\ nReq = 0
  /\ pc = [p \in Procs |-> "idle"]
  /\ loc = [p \in Procs |-> NoLocals]

\* ------------------------------------------------------------ responses
\* The HTTP status each handler answers with, from the state it reads.
\* A variant of JoinStatus that tests only that the session row exists.
JoinStatusRowOnly(sid) == IF ~session(sid).exists THEN 400 ELSE 200

\* join, index.ts 126 and 134.
JoinStatus(sid) == IF ~session(sid).exists \/ ~session(sid).isActive THEN 400 ELSE 200
\* generate, index.ts 46 and 145-150.
GenerateStatus(sid) == IF ~session(sid).exists THEN 400 ELSE 200
\* start, index.ts 161-162: the row of an existing match is updated and
\* returned, whatever its status.
StartStatus(ms, m) == 200
\* finish, index.ts 168, 172 and 203.
FinishStatus(ms, m, winnerTeam) ==
  IF winnerTeam \notin {1, 2} THEN 400
  ELSE IF m \notin DOMAIN ms THEN 404
  ELSE 200

\* ------------------------------------- handlers run as one step (Spec)
\* POST /api/session/:sessionId/queue/join, index.ts 123-135.
joinQueue(q, sid, u) ==
  IF JoinStatus(sid) # 200 THEN q
  ELSE Upsert(q, sid, u, NextPosition(q, sid))

Join(sid, u) ==
  /\ queue' = joinQueue(queue, sid, u)
  /\ UNCHANGED <<sessions, rating, matches, ratingHistory, nReq, pc, loc>>

\* POST /api/session/:sessionId/generate, index.ts 143-151.
Generate(sid) ==
  /\ IF GenerateStatus(sid) # 200
     THEN UNCHANGED <<queue, matches>>
     ELSE \E draws \in DrawSets(queue, sid) :
            LET r == generateUpcomingMatches(matches, queue, rating, sid, draws)
            IN /\ matches' = r.matches
               /\ queue' = r.queue
  /\ UNCHANGED <<sessions, rating, ratingHistory, nReq, pc, loc>>

\* POST /api/match/:matchId/start, index.ts 159-163 (an existing match).
Start(m) ==
  /\ m \in DOMAIN matches
  /\ matches' = [matches EXCEPT ![m].status = ONGOING]
  /\ UNCHANGED <<sessions, rating, queue, ratingHistory, nReq, pc, loc>>

\* match.update to FINISHED, index.ts 200.
FinishUpdate(ms, m, winnerTeam) ==
  [ms EXCEPT ![m].status = FINISHED, ![m].winnerTeam = winnerTeam]

\* The ratings read with the match, index.ts 171.
Snapshot(rt, p) == [k \in 1 .. 4 |-> rt[p[k]]]

\* The body of finish for an existing match and a valid winnerTeam, run
\* without interleaving, index.ts 171-202: the tables it leaves.
finishMatch(rt, q, ms, hist, m, winnerTeam, draws) ==
  LET match == ms[m]
      snap == Snapshot(rt, match.p)
      rt1 == RatingTransaction(rt, match.p, snap, winnerTeam)
      r == generateUpcomingMatches(FinishUpdate(ms, m, winnerTeam), q, rt1, match.sessionId, draws)
  IN [rating |-> rt1,
      ratingHistory |-> hist \o HistoryRows(match.p, snap, winnerTeam, m),
      matches |-> r.matches,
      queue |-> r.queue,
      created |-> r.created]

\* POST /api/match/:matchId/finish, index.ts 165-204.
Finish(m, winnerTeam) ==
  /\ IF FinishStatus(matches, m, winnerTeam) # 200
     THEN UNCHANGED <<rating, queue, matches, ratingHistory>>
     ELSE /\ Len(ratingHistory) < 4 * MaxFinishes
          /\ \E draws \in DrawSets(queue, matches[m].sessionId) :
               LET r == finishMatch(rating, queue, matches, ratingHistory, m, winnerTeam, draws)
               IN /\ rating' = r.rating
                  /\ ratingHistory' = r.ratingHistory
                  /\ matches' = r.matches
                  /\ queue' = r.queue
  /\ UNCHANGED <<sessions, nReq, pc, loc>>

\* Request inputs: a match id that names no row, and a winnerTeam that
\* fails validation, are among them.
MatchIds == 1 .. Len(matches) + 1
WinnerInputs == {1, 2, 3}

JoinReq == \E sid \in SessionIds, u \in JoinUsers : Join(sid, u)
GenerateReq == \E sid \in SessionIds : Generate(sid)
StartReq == \E m \in DOMAIN matches : Start(m)
FinishReq == \E m \in MatchIds, w \in WinnerInputs : Finish(m, w)

Next == JoinReq \/ GenerateReq \/ StartReq \/ FinishReq

Spec == Init /\ [][Next]_vars

\* ------------------------------------------ two active sessions at once
\* The users who joined session 1 and those who joined session 2 before
\* the first generate; one user is in both queues.
FirstUsers == 1 .. SessionPlayers
SecondUsers == SessionPlayers .. 2 * SessionPlayers - 1

\* As Init, with session 2 started as well: the first users joined
\* session 1 and then the second users joined session 2, in id order.
InitSessions ==
  /\ sessions = [sid \in SessionIds |-> IF sid \in {1, 2} THEN ActiveSession ELSE ClosedSession]
  /\ rating \in RatingProfiles
  /\ queue = [i \in 1 .. SessionPlayers |->
                [sessionId |-> 1, userId |-> i, position |-> i]]
             \o [i \in 1 .. SessionPlayers |->
                  [sessionId |-> 2, userId |-> SessionPlayers + i - 1, position |-> i]]
  /\ matches = <<>>
  /\ ratingHistory = <<>>
  /\ nReq = 0
  /\ pc = [p \in Procs |-> "idle"]
  /\ loc = [p \in Procs |-> NoLocals]

\* Later join requests come from the users who are in both sessions.
JoinSharedReq == \E sid \in SessionIds, u \in FirstUsers \cap SecondUsers : Join(sid, u)

NextSessions == JoinSharedReq \/ GenerateReq \/ StartReq \/ FinishReq

SpecSessions == InitSessions /\ [][NextSessions]_vars

\* --------------------- handlers interleaved at storage calls (SpecConc)
\* A step is one awaited storage call together with the synchronous code
\* that follows it up to the next await.  A request's arrival is taken
\* together with its first storage call.
\* A request is taken by the lowest idle slot (the slots are interchangeable).
FreeSlot(p) == pc[p] = "idle" /\ nReq < MaxRequests /\ \A q \in Procs : q < p => pc[q] # "idle"

Respond(p) == pc' = [pc EXCEPT ![p] = "idle"] /\ loc' = [loc EXCEPT ![p] = NoLocals]
Goto(p, label, locals) == pc' = [pc EXCEPT ![p] = label] /\ loc' = [loc EXCEPT ![p] = locals]

\* join: session.findUnique, index.ts 125-126.
ConcJoinBegin(p, sid, u) ==
  /\ FreeSlot(p)
  /\ nReq' = nReq + 1
  /\ IF JoinStatus(sid) # 200 THEN Respond(p)
     ELSE Goto(p, "J_max", [NoLocals EXCEPT !.sessionId = sid, !.userId = u])
  /\ UNCHANGED <<sessions, rating, queue, matches, ratingHistory>>

\* join: waitingQueueEntry.aggregate, index.ts 127-128.
ConcJoinMax(p) ==
  /\ pc[p] = "J_max"
  /\ Goto(p, "J_upsert", [loc[p] EXCEPT !.position = NextPosition(queue, loc[p].sessionId)])
  /\ UNCHANGED <<sessions, rating, queue, matches, ratingHistory, nReq>>

\* join: waitingQueueEntry.upsert, index.ts 129-134.
ConcJoinUpsert(p) ==
  /\ pc[p] = "J_upsert"
  /\ queue' = Upsert(queue, loc[p].sessionId, loc[p].userId, loc[p].position)
  /\ Respond(p)
  /\ UNCHANGED <<sessions, rating, matches, ratingHistory, nReq>>

\* start: match.update, index.ts 161-162.
ConcStart(p, m) ==
  /\ FreeSlot(p)
  /\ nReq' = nReq + 1
  /\ m \in DOMAIN matches
  /\ matches' = [matches EXCEPT ![m].status = ONGOING]
  /\ UNCHANGED <<sessions, rating, queue, ratingHistory, pc, loc>>

\* generate: the request arrives and session.findUnique runs, index.ts 45-46.
ConcGenerateBegin(p, sid) ==
  /\ FreeSlot(p)
  /\ nReq' = nReq + 1
  /\ IF GenerateStatus(sid) # 200 THEN Respond(p)
     ELSE Goto(p, "G_count", [NoLocals EXCEPT !.g = [NoGen EXCEPT !.sessionId = sid]])
  /\ UNCHANGED <<sessions, rating, queue, matches, ratingHistory>>

\* generateUpcomingMatches called by finish: session.findUnique, index.ts 45.
GenSession(p) ==
  /\ pc[p] = "G_session"
  /\ session(loc[p].g.sessionId).exists
  /\ Goto(p, "G_count", loc[p])
  /\ UNCHANGED <<sessions, rating, queue, matches, ratingHistory, nReq>>

\* match.count and the early return, index.ts 48-50.
GenCount(p) ==
  /\ pc[p] = "G_count"
  /\ LET a == AvailableCourts(matches, loc[p].g.sessionId)
     IN IF a <= 0 THEN Respond(p)
        ELSE Goto(p, "G_queue", [loc[p] EXCEPT !.g.availableCourts = a])
  /\ UNCHANGED <<sessions, rating, queue, matches, ratingHistory, nReq>>

\* waitingQueueEntry.findMany and the sort, index.ts 52-59.
GenQueue(p) ==
  /\ pc[p] = "G_queue"
  /\ Goto(p, "G_courts",
          [loc[p] EXCEPT !.g.players = SortedPlayers(queue, rating, loc[p].g.sessionId)])
  /\ UNCHANGED <<sessions, rating, queue, matches, ratingHistory, nReq>>

\* match.findMany of the used courts, the first court, and the first test
\* of the loop condition, index.ts 61-67.
GenCourts(p) ==
  /\ pc[p] = "G_courts"
  /\ LET used == UsedCourts(matches, loc[p].g.sessionId)
         g == [loc[p].g EXCEPT !.usedCourts = used, !.court = SkipUsed(1, used)]
     IN IF LoopCond(g) THEN Goto(p, "G_create", [loc[p] EXCEPT !.g = g])
        ELSE Respond(p)
  /\ UNCHANGED <<sessions, rating, queue, matches, ratingHistory, nReq>>

\* The swap, the slice and match.create, index.ts 68-75.
GenCreate(p) ==
  /\ pc[p] = "G_create"
  /\ \E draw \in BOOLEAN :
       LET g1 == MaybeSwap(loc[p].g, draw)
       IN /\ matches' = Append(matches, NewMatch(g1))
          /\ Goto(p, "G_delete", [loc[p] EXCEPT !.g = PushCreated(g1, Len(matches) + 1)])
  /\ UNCHANGED <<sessions, rating, queue, ratingHistory, nReq>>

\* waitingQueueEntry.deleteMany, the next court and the next test of the
\* loop condition, index.ts 76-80.
GenDelete(p) ==
  /\ pc[p] = "G_delete"
  /\ queue' = DeleteMany(queue, loc[p].g.sessionId, GroupIds(loc[p].g))
  /\ LET g == Advance(loc[p].g)
     IN IF LoopCond(g) THEN Goto(p, "G_create", [loc[p] EXCEPT !.g = g])
        ELSE Respond(p)
  /\ UNCHANGED <<sessions, rating, matches, ratingHistory, nReq>>

\* finish: validation and match.findUnique with its players, index.ts 166-172.
ConcFinishBegin(p, m, winnerTeam) ==
  /\ FreeSlot(p)
  /\ nReq' = nReq + 1
  /\ IF FinishStatus(matches, m, winnerTeam) # 200 THEN Respond(p)
     ELSE Goto(p, "F_tx", [NoLocals EXCEPT !.matchId = m, !.winnerTeam = winnerTeam,
                                           !.sessionId = matches[m].sessionId,
                                           !.p = matches[m].p,
                                           !.snap = Snapshot(rating, matches[m].p)])
  /\ UNCHANGED <<sessions, rating, queue, matches, ratingHistory>>

\* finish: the transaction of the four rating updates, index.ts 186-191.
FinishTx(p) ==
  /\ pc[p] = "F_tx"
  /\ rating' = RatingTransaction(rating, loc[p].p, loc[p].snap, loc[p].winnerTeam)
  /\ Goto(p, "F_history", loc[p])
  /\ UNCHANGED <<sessions, queue, matches, ratingHistory, nReq>>

\* finish: ratingHistory.createMany, index.ts 193-198.
FinishHistory(p) ==
  /\ pc[p] = "F_history"
  /\ ratingHistory' = ratingHistory \o HistoryRows(loc[p].p, loc[p].snap, loc[p].winnerTeam, loc[p].matchId)
  /\ Goto(p, "F_update", loc[p])
  /\ UNCHANGED <<sessions, rating, queue, matches, nReq>>

\* finish: match.update to FINISHED, then generateUpcomingMatches is
\* called, index.ts 200-202.
FinishMatchUpdate(p) ==
  /\ pc[p] = "F_update"
  /\ matches' = FinishUpdate(matches, loc[p].matchId, loc[p].winnerTeam)
  /\ Goto(p, "G_session", [loc[p] EXCEPT !.g = [NoGen EXCEPT !.sessionId = loc[p].sessionId]])
  /\ UNCHANGED <<sessions, rating, queue, ratingHistory, nReq>>

ConcNext ==
  \E p \in Procs :
    \/ \E sid \in SessionIds, u \in JoinUsers : ConcJoinBegin(p, sid, u)
    \/ ConcJoinMax(p)
    \/ ConcJoinUpsert(p)
    \/ \E m \in DOMAIN matches : ConcStart(p, m)
    \/ \E sid \in SessionIds : ConcGenerateBegin(p, sid)
    \/ GenSession(p)
    \/ GenCount(p)
    \/ GenQueue(p)
    \/ GenCourts(p)
    \/ GenCreate(p)
    \/ GenDelete(p)
    \/ \E m \in MatchIds, w \in WinnerInputs : ConcFinishBegin(p, m, w)
    \/ FinishTx(p)
    \/ FinishHistory(p)
    \/ FinishMatchUpdate(p)

SpecConc == Init /\ [][ConcNext]_vars

\* ================================================================ claims
InUse(m) == matches[m].status \in InUseStatuses
Slots(m) == {matches[m].p[k] : k \in 1 .. 4}

\* C1: no two SCHEDULED or ONGOING matches of the same session have the
\* same court number.
C1_CourtsUnique ==
  \A a, b \in DOMAIN matches :
    (a # b /\ matches[a].sessionId = matches[b].sessionId /\ InUse(a) /\ InUse(b))
      => matches[a].court # matches[b].court

\* C2: no player has a queue entry in a session while occupying a slot of
\* a SCHEDULED or ONGOING match of that session.
C2_QueuedNotPlaying ==
  \A sid \in SessionIds, u \in Users :
    ~(/\ IsQueued(queue, sid, u)
      /\ \E m \in DOMAIN matches : matches[m].sessionId = sid /\ InUse(m) /\ u \in Slots(m))

\* C3: a match's status only changes SCHEDULED -> ONGOING, ONGOING ->
\* FINISHED or SCHEDULED -> FINISHED; a FINISHED match stays FINISHED.
C3_StatusTransitions ==
  [][\A m \in DOMAIN matches :
       \/ matches'[m].status = matches[m].status
       \/ <<matches[m].status, matches'[m].status>> \in
            {<<SCHEDULED, ONGOING>>, <<ONGOING, FINISHED>>, <<SCHEDULED, FINISHED>>}]_vars

\* C4: finish on a match that is already FINISHED answers with an error
\* status and leaves every rating and the rating history unchanged.
C4_FinishOnFinishedFails ==
  [][\A m \in DOMAIN matches, w \in {1, 2} :
       (matches[m].status = FINISHED /\ Finish(m, w))
         => /\ FinishStatus(matches, m, w) = 400
            /\ rating' = rating
            /\ ratingHistory' = ratingHistory]_vars

\* C5: the four rating changes recorded for one finish sum to zero (every
\* finish appends its four history rows together).
C5_ZeroSum ==
  \A k \in 0 .. (Len(ratingHistory) \div 4) - 1 :
    SumSeq([j \in 1 .. 4 |-> ratingHistory[4 * k + j].change]) = 0

\* C6: when both teams average 1200 and team 1 wins, finish raises each
\* team-1 player's rating by 16 and lowers each team-2 player's by 16.
C6_EqualTeams ==
  [][\A m \in DOMAIN matches :
       LET q == matches[m].p
       IN (/\ rating[q[1]] + rating[q[2]] = 2 * DefaultRating
           /\ rating[q[3]] + rating[q[4]] = 2 * DefaultRating
           /\ Finish(m, 1))
            => /\ rating'[q[1]] = rating[q[1]] + 16
               /\ rating'[q[2]] = rating[q[2]] + 16
               /\ rating'[q[3]] = rating[q[3]] - 16
               /\ rating'[q[4]] = rating[q[4]] - 16]_vars

\* C7: finish applies the four rating changes and the FINISHED transition
\* as one unit: whenever a finish request has committed its rating
\* transaction, its match is FINISHED in the state other requests see.
C7_FinishAtomic ==
  \A p \in Procs :
    pc[p] \in {"F_history", "F_update"} => matches[loc[p].matchId].status = FINISHED

\* C8: two calls of generateUpcomingMatches in progress at the same time
\* (from generate or finish requests) never both create a match on the
\* same court and never both place the same player.
Created(p) == {loc[p].g.created[k] : k \in DOMAIN loc[p].g.created}
C8_NoGenerateRace ==
  \A p, q \in Procs :
    p # q =>
      \A a \in Created(p), b \in Created(q) :
        (InUse(a) /\ InUse(b) /\ matches[a].sessionId = matches[b].sessionId)
          => /\ matches[a].court # matches[b].court
             /\ Slots(a) \cap Slots(b) = {}

\* The lowest court number, from 1, that no SCHEDULED or ONGOING match of
\* the session other than m uses.
LowestCourtWithout(m) ==
  LET sid == matches[m].sessionId
      busy == {matches[o].court : o \in InUseIds(matches, sid) \ {m}}
      free == (1 .. Len(matches) + 1) \ busy
  IN CHOOSE c \in free : \A d \in free : c <= d

\* The case of C9: match m is SCHEDULED or ONGOING, at least 4 players
\* wait in its session, and finishing m leaves a court of the session free.
BackfillCase(m) ==
  LET sid == matches[m].sessionId
  IN /\ InUse(m)
     /\ Len(QueueOf(queue, sid)) >= 4
     /\ Cardinality(InUseIds(matches, sid) \ {m}) < session(sid).courts

\* Finish of m leaves a new SCHEDULED match on court c.
BackfilledOn(m, w, draws, c) ==
  LET r == finishMatch(rating, queue, matches, ratingHistory, m, w, draws)
  IN \E n \in (DOMAIN r.matches) \ (DOMAIN matches) :
       /\ r.matches[n].sessionId = matches[m].sessionId
       /\ r.matches[n].status = SCHEDULED
       /\ r.matches[n].court = c

\* C9 as stated: in that case, when finish returns, a new SCHEDULED match
\* exists on the court the finished match occupied.
C9_BackfillOnFreedCourt ==
  \A m \in DOMAIN matches, w \in {1, 2} :
    BackfillCase(m) =>
      \A draws \in DrawSets(queue, matches[m].sessionId) :
        BackfilledOn(m, w, draws, matches[m].court)

\* C9 as amended: in that case, when finish returns, a new SCHEDULED match
\* exists on the lowest court number that no other SCHEDULED or ONGOING
\* match of the session uses.
C9_BackfillOnLowestCourt ==
  \A m \in DOMAIN matches, w \in {1, 2} :
    BackfillCase(m) =>
      \A draws \in DrawSets(queue, matches[m].sessionId) :
        BackfilledOn(m, w, draws, LowestCourtWithout(m))

\* A finish has backfilled: matches 1 and 2 are FINISHED, match 3 is
\* SCHEDULED on court 1 although match 2 held court 2, and nobody waits.
C9_Witness ==
  /\ Len(matches) = 3 /\ Len(ratingHistory) = 8
  /\ matches[1].status = FINISHED /\ matches[2].status = FINISHED
  /\ matches[2].court = 2
  /\ matches[3].status = SCHEDULED /\ matches[3].court = 1
  /\ queue = <<>>

\* C10: generate run without interleaving on a session with n waiting
\* players creates exactly min(available, floor(n / 4)) matches, all
\* SCHEDULED, and removes exactly their players from the queue; with 4
\* waiting players and no court in use it creates one match on court 1
\* and empties the queue.
C10_GenerateCount ==
  \A sid \in SessionIds :
    session(sid).exists =>
      \A draws \in DrawSets(queue, sid) :
        LET r == generateUpcomingMatches(matches, queue, rating, sid, draws)
            waiting == {queue[i].userId : i \in {j \in DOMAIN queue : queue[j].sessionId = sid}}
            n == Len(QueueOf(queue, sid))
            inUse == Cardinality({m \in DOMAIN matches : matches[m].sessionId = sid /\ InUse(m)})
            available == IF session(sid).courts > inUse THEN session(sid).courts - inUse ELSE 0
            new == (DOMAIN r.matches) \ (DOMAIN matches)
            placed == UNION {{r.matches[x].p[k] : k \in 1 .. 4} : x \in new}
        IN /\ Cardinality(new) = Min(available, n \div 4)
           /\ \A m \in DOMAIN matches : r.matches[m] = matches[m]
           /\ \A x \in new : r.matches[x].status = SCHEDULED /\ r.matches[x].sessionId = sid
           /\ placed \subseteq waiting
           /\ Cardinality(placed) = 4 * Cardinality(new)
           /\ r.queue = SelectSeq(queue, LAMBDA e : ~(e.sessionId = sid /\ e.userId \in placed))
           /\ (n = 4 /\ inUse = 0) =>
                /\ Cardinality(new) = 1
                /\ \A x \in new : r.matches[x].court = 1
                /\ QueueOf(r.queue, sid) = <<>>

\* A generate has run on the full initial queue: two matches were created
\* at once and the other players still wait.
C10_Witness ==
  /\ ratingHistory = <<>>
  /\ Len(matches) = 2
  /\ \A m \in DOMAIN matches : matches[m].status = SCHEDULED
  /\ Len(queue) = NumUsers - 8

\* The matches of session sid that hold a court, and its waiting entries.
Playing(sid) == {m \in DOMAIN matches : matches[m].sessionId = sid /\ InUse(m)}
Waiting(sid) == {i \in DOMAIN queue : queue[i].sessionId = sid}

\* C11: generate on an existing session with no available court or with
\* fewer than 4 waiting players answers 200 with an empty result and
\* leaves the queue and the matches as they are; no generate request
\* changes a rating or the rating history.
C11_GenerateNoOp ==
  /\ [](\A sid \in SessionIds :
         (/\ session(sid).exists
          /\ \/ Cardinality(Playing(sid)) >= session(sid).courts
             \/ Cardinality(Waiting(sid)) < 4)
           => /\ GenerateStatus(sid) = 200
              /\ \A draws \in DrawSets(queue, sid) :
                   LET r == generateUpcomingMatches(matches, queue, rating, sid, draws)
                   IN r.created = <<>> /\ r.matches = matches /\ r.queue = queue)
  /\ [][\A sid \in SessionIds :
         Generate(sid) => rating' = rating /\ ratingHistory' = ratingHistory]_vars

\* A finish has called generateUpcomingMatches with a court free and
\* fewer than 4 waiting players, and it created nothing: match 1 is
\* FINISHED, no third match exists, and the 3 players still wait.
C11_Witness ==
  /\ Len(matches) = 2
  /\ matches[1].status = FINISHED
  /\ Cardinality(Playing(1)) < session(1).courts
  /\ Cardinality(Waiting(1)) = 3
  /\ Len(ratingHistory) = 4

\* The queue entries of the pair (sid, u) in queue q.
EntriesOf(q, sid, u) == {i \in DOMAIN q : q[i].sessionId = sid /\ q[i].userId = u}

\* C12: join is idempotent.  In every reachable state a pair (session,
\* player) has at most one queue entry; a join of an active session leaves
\* exactly one entry for the pair; and a join of a pair that has an entry
\* (the first join's, whatever ran since, unless a generate removed it)
\* leaves the whole queue, that entry's position included, as it was.
C12_JoinIdempotent ==
  \A sid \in SessionIds, u \in Users :
    /\ Cardinality(EntriesOf(queue, sid, u)) <= 1
    /\ JoinStatus(sid) = 200 =>
         LET q1 == Upsert(queue, sid, u, NextPosition(queue, sid))
             q2 == Upsert(q1, sid, u, NextPosition(q1, sid))
         IN /\ Cardinality(EntriesOf(q1, sid, u)) = 1
            /\ q2 = q1
            /\ EntriesOf(queue, sid, u) # {} => q1 = queue

\* A player that generate had placed has joined again: the entry's position
\* is beyond the positions the initial joins handed out.
C12_Witness ==
  \E i \in DOMAIN queue : queue[i].userId \in JoinUsers /\ queue[i].position > NumUsers

\* C13: every match's court number is between 1 and the court capacity
\* of its session.
C13_CourtInRange ==
  \A m \in DOMAIN matches :
    matches[m].court \in 1 .. session(matches[m].sessionId).courts

\* C14: start sets a SCHEDULED match to ONGOING; on a match that is
\* ONGOING or FINISHED it answers with an error status and leaves the
\* match as it is.
C14_StartOnlyScheduled ==
  [][\A m \in DOMAIN matches :
       Start(m) =>
         IF matches[m].status = SCHEDULED
         THEN matches'[m].status = ONGOING
         ELSE StartStatus(matches, m) = 400 /\ matches'[m] = matches[m]]_vars

\* C15: join on a session that has no row or is not active answers 400
\* (invalid session) and creates no queue entry: the queue stays as it is.
C15_JoinInvalidSession ==
  \A sid \in SessionIds, u \in Users :
    (~session(sid).exists \/ ~session(sid).isActive)
      => /\ JoinStatus(sid) = 400
         /\ joinQueue(queue, sid, u) = queue
         /\ EntriesOf(queue, sid, u) = {}

\* A session id with no row and a session that is not active both exist
\* as join targets, and join requests have been served: one on the active
\* session created an entry, none created an entry anywhere else.
C15_Witness ==
  /\ \E sid \in SessionIds : ~session(sid).exists
  /\ \E sid \in SessionIds : session(sid).exists /\ ~session(sid).isActive
  /\ Len(queue) > 0
  /\ queue[Len(queue)].position > NumUsers
  /\ \A i \in DOMAIN queue : queue[i].sessionId = 1

\* C16: every match has four pairwise distinct players in its slots, so
\* team 1 {p1, p2} and team 2 {p3, p4} are disjoint.
C16_FourDistinctPlayers ==
  \A m \in DOMAIN matches :
    /\ Len(matches[m].p) = 4
    /\ \A j, k \in 1 .. 4 : j # k => matches[m].p[j] # matches[m].p[k]
    /\ {matches[m].p[1], matches[m].p[2]} \cap {matches[m].p[3], matches[m].p[4]} = {}

\* Three matches exist and the third was formed after a player who had
\* already played joined the queue again.
C16_Witness ==
  /\ Len(matches) >= 3
  /\ Slots(3) \cap (Slots(1) \cup Slots(2)) # {}

\* A request on session a is served: a join, a generate, or a start or
\* finish of one of its matches.
OpOn(a) ==
  \/ \E u \in Users : Join(a, u)
  \/ Generate(a)
  \/ \E m \in DOMAIN matches : matches[m].sessionId = a /\ Start(m)
  \/ \E m \in DOMAIN matches, w \in {1, 2} : matches[m].sessionId = a /\ Finish(m, w)

\* The match rows of session b, with their ids.
MatchesOf(ms, b) == {<<m, ms[m]>> : m \in {x \in DOMAIN ms : ms[x].sessionId = b}}

\* What a generate on session b produces from the given tables: the court
\* and the four slots of each match it creates, in creation order.
Produced(ms, q, rt, b, draws) ==
  LET r == generateUpcomingMatches(ms, q, rt, b, draws)
  IN [k \in DOMAIN r.created |->
        [court |-> r.matches[r.created[k]].court, p |-> r.matches[r.created[k]].p]]

\* The ratings of the players waiting in session b are the same in rt1 and rt2.
SameWaitingRatings(q, b, rt1, rt2) ==
  \A i \in DOMAIN q : q[i].sessionId = b => rt1[q[i].userId] = rt2[q[i].userId]

\* C17 as stated: a request on session a never changes the queue entries
\* or the matches of another session b, nor what a following generate on
\* b produces.
C17_SessionsIndependent ==
  [][\A a \in SessionIds :
       OpOn(a) => \A b \in SessionIds \ {a} :
         session(b).exists
         => /\ QueueOf(queue', b) = QueueOf(queue, b)
            /\ MatchesOf(matches', b) = MatchesOf(matches, b)
            /\ \A draws \in DrawSets(queue, b) :
                 Produced(matches', queue', rating', b, draws)
                   = Produced(matches, queue, rating, b, draws)]_vars

\* C17 as amended: a request on session a never changes the queue entries
\* or the matches of another session b; and it leaves what a following
\* generate on b produces as it was unless it is a finish that changes the
\* rating of a player waiting in b.
C17_SessionsShareOnlyRatings ==
  [][\A a \in SessionIds :
       OpOn(a) => \A b \in SessionIds \ {a} :
         session(b).exists
         => /\ QueueOf(queue', b) = QueueOf(queue, b)
            /\ MatchesOf(matches', b) = MatchesOf(matches, b)
            /\ SameWaitingRatings(queue, b, rating, rating') =>
                 \A draws \in DrawSets(queue, b) :
                   Produced(matches', queue', rating', b, draws)
                     = Produced(matches, queue, rating, b, draws)]_vars

\* A match of session 1 was finished, and its ratings written, while one
\* of its players waited in session 2 with at least three others.
C17_Witness ==
  /\ \E m \in DOMAIN matches :
       /\ matches[m].sessionId = 1 /\ matches[m].status = FINISHED
       /\ \E u \in Slots(m) : IsQueued(queue, 2, u)
  /\ Len(QueueOf(queue, 2)) >= 4
  /\ Len(ratingHistory) = 4

\* The k-th lowest court number, counted from 1, that is not in `used`.
NthFreeCourt(used, k) ==
  CHOOSE c \in 1 .. k + Cardinality(used) :
    c \notin used /\ Cardinality((1 .. c) \ used) = k

\* C18: the matches one generate call creates (run without interleaving)
\* get exactly the lowest court numbers, from 1, that no SCHEDULED or
\* ONGOING match of the session uses: the k-th match created gets the k-th
\* lowest such court.
C18_LowestFreeCourts ==
  \A sid \in SessionIds :
    session(sid).exists =>
      \A draws \in DrawSets(queue, sid) :
        LET r == generateUpcomingMatches(matches, queue, rating, sid, draws)
            used == {matches[m].court : m \in Playing(sid)}
        IN \A k \in DOMAIN r.created :
             r.matches[r.created[k]].court = NthFreeCourt(used, k)

\* A generate call has skipped a used court: match 1 still holds court 1,
\* match 2 is FINISHED, and match 3 was created on court 2.
C18_Witness ==
  /\ Len(matches) = 3
  /\ InUse(1) /\ matches[1].court = 1
  /\ matches[2].status = FINISHED
  /\ matches[3].status = SCHEDULED /\ matches[3].court = 2

\* C19: in every match generate creates (run without interleaving), with
\* any outcome of the swap draws, the slots are in ascending order of the
\* players' ratings at creation: rating(p1) <= rating(p2) <= rating(p3) <=
\* rating(p4), so no team-1 player is rated above a team-2 player.
C19_SlotsAscending ==
  \A sid \in SessionIds :
    session(sid).exists =>
      \A draws \in DrawSets(queue, sid) :
        LET r == generateUpcomingMatches(matches, queue, rating, sid, draws)
        IN \A k \in DOMAIN r.created :
             LET p == r.matches[r.created[k]].p
             IN /\ \A j \in 1 .. 3 : rating[p[j]] <= rating[p[j + 1]]
                /\ \A a \in {p[1], p[2]}, b \in {p[3], p[4]} : rating[a] <= rating[b]

\* The first generate has run with the swap taken in its first group:
\* a player outside match 1 is rated strictly below match 1's fourth slot,
\* and the slots of match 1 are in strictly ascending rating order.
C19_Witness ==
  /\ ratingHistory = <<>>
  /\ Len(matches) = 2
  /\ \A m \in DOMAIN matches : matches[m].status = SCHEDULED
  /\ \E u \in Users \ Slots(1) : rating[u] < rating[matches[1].p[4]]
  /\ \A j \in 1 .. 3 : rating[matches[1].p[j]] < rating[matches[1].p[j + 1]]

\* C20: the swap skips at most one player.  When a generate call (run
\* without interleaving) creates k >= 1 matches, every placed player is a
\* waiting player among the first 4k+1 of the rating-sorted waiting list,
\* so rated no higher than its (4k+1)-th player; and at a loop index with
\* no player beyond the group of 4 a draw below 0.2 leaves the list alone.
C20_SwapSkipsAtMostOne ==
  \A sid \in SessionIds :
    session(sid).exists =>
      LET sorted == SortedPlayers(queue, rating, sid)
          n == Len(sorted)
          g0 == GenLocals(matches, queue, rating, sid)
      IN /\ \A draws \in DrawSets(queue, sid) :
              LET r == generateUpcomingMatches(matches, queue, rating, sid, draws)
                  k == Len(r.created)
                  last == Min(4 * k + 1, n)
                  placed == UNION {{r.matches[r.created[x]].p[j] : j \in 1 .. 4} : x \in DOMAIN r.created}
              IN k >= 1 =>
                   /\ placed \subseteq {sorted[j] : j \in 1 .. last}
                   /\ \A u \in placed : rating[u] <= rating[sorted[last]]
                   /\ Cardinality({sorted[j] : j \in 1 .. last} \ placed) <= 1
         /\ \A i \in 0 .. n :
              (i % 4 = 0 /\ i + 3 < n /\ i + 4 >= n)
                => MaybeSwap([g0 EXCEPT !.i = i], TRUE) = [g0 EXCEPT !.i = i]

\* The first generate has run with the swap taken in its last group: a
\* player who still waits is rated strictly below match 2's fourth slot.
C20_Witness ==
  /\ ratingHistory = <<>>
  /\ Len(matches) = 2
  /\ \A m \in DOMAIN matches : matches[m].status = SCHEDULED
  /\ \E i \in DOMAIN queue : rating[queue[i].userId] < rating[matches[2].p[4]]

\* C21: within one session the waiting entries have pairwise distinct
\* positions, and an entry created before another has the smaller position
\* (the queue sequence is in order of creation).
C21_PositionsFollowArrival ==
  \A i, j \in DOMAIN queue :
    (i < j /\ queue[i].sessionId = queue[j].sessionId)
      => queue[i].position < queue[j].position

\* C22: a player occupies a slot in at most one SCHEDULED or ONGOING match
\* of a session.
C22_OneActiveMatchPerPlayer ==
  \A a, b \in DOMAIN matches :
    (a # b /\ matches[a].sessionId = matches[b].sessionId /\ InUse(a) /\ InUse(b))
      => Slots(a) \cap Slots(b) = {}

\* The sum of the change values of the rating-history rows of user u.
HistorySum(u) ==
  SumSeq([i \in DOMAIN ratingHistory |->
            IF ratingHistory[i].userId = u THEN ratingHistory[i].change ELSE 0])

\* C23: whenever no request is in progress (so no finish is), each
\* player's rating is the rating they started with plus the sum of the
\* changes recorded for them in the rating history.
C23_HistoryIsAuditTrail ==
  (\A p \in Procs : pc[p] = "idle")
    => \E initial \in RatingProfiles :
         \A u \in Users : rating[u] = initial[u] + HistorySum(u)

=============================================================================
